---- MODULE Spec2Model ----
(***************************************************************************)
(* State-machine model of the OSIPTEL scraper's task-processing engine:    *)
(*   src/osiptel_worker.py  ProxyManager, BrowserManager, Worker           *)
(*   src/osiptel_core.py    Statistics, ProgressManager, ResultsWriter     *)
(*   src/osiptel_main.py    ScraperOrchestrator                            *)
(* The engine runs on one asyncio event loop: a step of the model is the   *)
(* code one coroutine executes between two suspension points.              *)
(***************************************************************************)
EXTENDS Integers, Sequences, FiniteSets, TLC

(***************************************************************************)
(* Bounds of the model.  The configuration values are scaled down from the *)
(* defaults of ScraperConfig (max_retries 3, checkpoint_interval 25,       *)
(* batch_save_size 1000) and of BrowserManager (_max_pages_per_browser     *)
(* 150).  A run has at most MaxWorkers workers and MaxRucs ids, and        *)
(* workers and ids together are at most MaxLoad.                           *)
(***************************************************************************)
MaxRucs == 2
MaxWorkers == 2
MaxLoad == 3
max_retries == 2
max_pages_per_browser == 2
checkpoint_interval == 2
batch_save_size == 2
MaxRuns == 2
MaxAppends == 5
MaxPageOps == 5
MaxBackoffAttempt == 5
MaxListLen == 3

\* retry configuration, ScraperConfig
retry_base_delay == 5
retry_max_delay == 30
retry_multiplier == 2

Workers == 0 .. (MaxWorkers - 1)
RucIds == 1 .. MaxRucs
None == 0

\* the input lists read_rucs_from_file can hand to run(): n distinct ids
InputLists == { [i \in 1 .. n |-> i] : n \in 0 .. MaxRucs }

Min(a, b) == IF a <= b THEN a ELSE b
Max(a, b) == IF a >= b THEN a ELSE b

RECURSIVE Pow(_, _)
Pow(b, e) == IF e = 0 THEN 1 ELSE b * Pow(b, e - 1)

RECURSIVE SeqSum(_)
SeqSum(s) == IF s = <<>> THEN 0 ELSE Head(s) + SeqSum(Tail(s))

Range(s) == { s[i] : i \in DOMAIN s }

VARIABLES
    run,                \* number of the current process (1 = first start)
    prev_end,           \* how the previous process ended
    all_rucs,           \* the ids of the input file
    input_fault,        \* what is wrong with the configuration or the input file
    max_workers,        \* ScraperConfig.max_workers
    orch_pc,            \* position of ScraperOrchestrator.run
    shutdown_requested, \* ScraperOrchestrator._shutdown_requested
    ruc_queue,          \* ScraperOrchestrator.ruc_queue
    result_queue,       \* ScraperOrchestrator.result_queue
    worker,             \* per worker: position and fields of Worker
    bm,                 \* per worker: fields of its BrowserManager
    session_counter,    \* ProxyManager._session_counter
    consumer_pc,        \* position of _process_results
    checkpoint_counter, \* local of _process_results
    progress,           \* ProgressManager: processed_rucs, failed_rucs, statistics
    files,              \* progress file and its temporary file
    save_prev,          \* content of the progress file when the running save() began
    writer,             \* ResultsWriter fields
    main_rows,          \* rows of the main output file (ids)
    batch_files,        \* batch number -> rows of that batch file
    audit,              \* history: per id counts of dequeues, pushes, drops, passes,
                        \* and the error kind of the Failed Result pushed
    lease,              \* history: per worker use of its current session
    bk                  \* retry-delay computation under test

engineVars == <<run, prev_end, all_rucs, input_fault, max_workers, orch_pc, shutdown_requested, ruc_queue,
                result_queue, worker, bm, session_counter, consumer_pc,
                checkpoint_counter, progress, files, save_prev, writer, main_rows,
                batch_files, audit, lease>>
vars == <<engineVars, bk>>

(***************************************************************************)
(* Data                                                                    *)
(***************************************************************************)
\* RUCResult; the payload (lines) and the timings are left out
Result(ruc, status, error_type, attempts) ==
    [ruc |-> ruc, status |-> status, error_type |-> error_type, attempts |-> attempts]

NoneResult == Result(None, "none", "none", 0)

\* a session id: worker id and the manager's counter (the timestamp and the
\* random suffix of the id are left out: they only make ids more distinct).
\* BrowserManager._browser is modelled by the id of the session the browser
\* was created with, which is _current_session_id while a browser exists
NoSession == <<>>

\* a token that leaves the counter out
SessionIdOfWorker(worker_id, counter) == <<worker_id, 0>>

SessionId(worker_id, counter) == <<worker_id, counter>>

\* the tokens get_session_id returns to worker w while the counter goes
\* from c0 to c1
Issued(w, c0, c1) == { SessionId(w, c) : c \in (c0 + 1) .. c1 }

InitStatistics ==
    [total_rucs |-> 0, processed |-> 0, successful |-> 0, failed |-> 0, total_retries |-> 0]

InitProgress ==
    [processed_rucs |-> {}, failed_rucs |-> <<>>, statistics |-> InitStatistics]

\* list(self.processed_rucs): the ids of the set, in the order the set yields
RECURSIVE SetToList(_)
SetToList(S) == IF S = {} THEN <<>> ELSE LET x == CHOOSE x \in S : TRUE
                                        IN <<x>> \o SetToList(S \ {x})

\* ProgressManager.save: the data written as JSON
Dump(p) ==
    [processed_rucs |-> SetToList(p.processed_rucs), failed_rucs |-> p.failed_rucs,
     statistics |-> p.statistics]

\* ProgressManager.load: the progress built from the JSON data
Parse(data) ==
    [processed_rucs |-> Range(data.processed_rucs), failed_rucs |-> data.failed_rucs,
     statistics |-> data.statistics]

NoFile == [exists |-> FALSE, complete |-> FALSE, data |-> Dump(InitProgress)]

InitWriter ==
    [batch_results |-> <<>>, total_saved |-> 0, batch_number |-> 0, batch_times |-> <<>>,
     appended |-> 0, finalized |-> FALSE]

InitWorker ==
    [pc |-> "idle", running |-> TRUE, ruc |-> None, attempt |-> 0,
     last_result |-> NoneResult, tries |-> 0, calls |-> 0, exit |-> "none"]

\* live is history: the sessions whose browser was started and not closed
InitBM == [browser |-> NoSession, pages_opened |-> 0, live |-> {}]

InitLease ==
    [uses |-> 0, prev |-> NoSession, reused |-> FALSE, ops |-> 0, forced |-> FALSE,
     issued |-> {}]

InitAudit ==
    [dequeued |-> [r \in RucIds |-> 0], pushed |-> [r \in RucIds |-> 0],
     dropped |-> [r \in RucIds |-> 0], recorded |-> [r \in RucIds |-> 0],
     sentinels |-> [w \in Workers |-> 0], passes |-> [r \in RucIds |-> 0],
     failed |-> [r \in RucIds |-> 0], crashed |-> [r \in RucIds |-> 0],
     kind |-> [r \in RucIds |-> "none"]]

InitBk == [base |-> 0, mult |-> 0, maxd |-> 0, attempt |-> 0, delays |-> <<>>]

(***************************************************************************)
(* ProxyManager and BrowserManager (osiptel_worker.py)                     *)
(***************************************************************************)
\* BrowserManager._cleanup: the browser context is left and forgotten
Cleanup(b) == [b EXCEPT !.browser = NoSession, !.live = @ \ {b.browser}]

\* BrowserManager._create_browser: a new session id is drawn first; when the
\* browser cannot be started the manager is left without a browser
CreateBrowser(b, w, counter, ok) ==
    LET sid == SessionId(w, counter + 1) IN
    [b |-> IF ok
           THEN [browser |-> sid, pages_opened |-> 0, live |-> b.live \cup {sid}]
           ELSE Cleanup(b),
     counter |-> counter + 1,
     ok |-> ok]

NeedsRestartNoCap(b, force_new) == force_new \/ b.browser = NoSession

\* BrowserManager.get_browser: needs_restart
NeedsRestart(b, force_new) ==
    force_new \/ b.browser = NoSession \/ b.pages_opened >= max_pages_per_browser

\* a get_browser that returns without a browser instead of raising
GetBrowserNoRaise(b, w, counter, force_new, create_ok) ==
    IF NeedsRestart(b, force_new)
    THEN [CreateBrowser(Cleanup(b), w, counter, create_ok) EXCEPT !.ok = TRUE]
    ELSE [b |-> b, counter |-> counter, ok |-> TRUE]

\* BrowserManager.get_browser: ok = FALSE stands for RuntimeError
GetBrowser(b, w, counter, force_new, create_ok) ==
    IF NeedsRestart(b, force_new)
    THEN CreateBrowser(Cleanup(b), w, counter, create_ok)
    ELSE [b |-> b, counter |-> counter, ok |-> TRUE]

\* BrowserManager.new_page: error is "create" when get_browser raised, "page"
\* when browser.new_page() raised, "none" when the page was opened
NewPage(b, w, counter, create_ok, page_ok) ==
    LET g == GetBrowser(b, w, counter, FALSE, create_ok) IN
    IF ~g.ok THEN [b |-> g.b, counter |-> g.counter, error |-> "create"]
    ELSE IF ~page_ok THEN [b |-> g.b, counter |-> g.counter, error |-> "page"]
    ELSE [b |-> [g.b EXCEPT !.pages_opened = @ + 1], counter |-> g.counter, error |-> "none"]

RotateIpKeepsSession(b, w, counter, ok) == [b |-> b, counter |-> counter, ok |-> TRUE]

\* a rotation that starts the new browser without closing the old one
RotateIpNoCleanup(b, w, counter, ok) == CreateBrowser(b, w, counter, ok)

\* BrowserManager.rotate_ip: the result of _create_browser is not looked at
RotateIp(b, w, counter, ok) == CreateBrowser(Cleanup(b), w, counter, ok)

\* history of a worker's session after a manager operation that took the
\* manager from b to nb: a session other than the one before starts unused
LeaseAfter(l, b, nb, opened, viaCap) ==
    [uses |-> (IF nb.browser # b.browser THEN 0 ELSE l.uses) + (IF opened THEN 1 ELSE 0),
     prev |-> l.prev,
     reused |-> l.reused,
     ops |-> l.ops,
     forced |-> viaCap,
     issued |-> l.issued]

(***************************************************************************)
(* Retry policy of Worker._process_ruc_with_retries                        *)
(***************************************************************************)
BackoffDelayNoCap(base, mult, maxd, attempt) == base * Pow(mult, attempt - 1)

\* the delay before jitter
BackoffDelay(base, mult, maxd, attempt) == Min(base * Pow(mult, attempt - 1), maxd)

ShouldRetryAlways(attempt) == attempt <= max_retries

\* a loop that gives up after its first pass
ShouldRetryNever(attempt) == FALSE

\* "if attempt < self.config.max_retries": prepare for retry
ShouldRetry(attempt) == attempt < max_retries

AttemptResultFirst(ruc, status, error_type, attempt) == Result(ruc, status, error_type, 1)

\* "result.attempts = attempt" and "RUCResult(..., attempts=attempt)"
AttemptResult(ruc, status, error_type, attempt) == Result(ruc, status, error_type, attempt)

\* "last_result.attempts = self.config.max_retries"
AllRetriesFailed(last_result) == [last_result EXCEPT !.attempts = max_retries]

(***************************************************************************)
(* Statistics and ProgressManager (osiptel_core.py)                        *)
(***************************************************************************)
Put(f, k, v) == [x \in (DOMAIN f) \cup {k} |-> IF x = k THEN v ELSE f[x]]

\* an update that counts the latest Result only
StatisticsOfLast(st, result) ==
    [st EXCEPT !.processed = 1,
               !.successful = IF result.status = "success" THEN 1 ELSE 0,
               !.failed = IF result.status = "success" THEN 0 ELSE 1,
               !.total_retries = Max(0, result.attempts - 1)]

\* an update that leaves successful and failed alone
StatisticsCountsProcessed(st, result) == [st EXCEPT !.processed = @ + 1]

\* Statistics.update
StatisticsUpdate(st, result) ==
    [st EXCEPT !.processed = @ + 1,
               !.successful = IF result.status = "success" THEN @ + 1 ELSE @,
               !.failed = IF result.status = "success" THEN @ ELSE @ + 1,
               !.total_retries = @ + Max(0, result.attempts - 1)]

\* an add_result that counts only successful ids as processed
AddResultSkipsFailed(p, result) ==
    IF result.status = "success"
    THEN [p EXCEPT !.processed_rucs = @ \cup {result.ruc}]
    ELSE [p EXCEPT !.failed_rucs =
             Put(@, result.ruc, [error_type |-> result.error_type,
                                 attempts |-> result.attempts])]

\* ProgressManager.add_result
AddResult(p, result) ==
    [processed_rucs |-> p.processed_rucs \cup {result.ruc},
     statistics |-> StatisticsUpdate(p.statistics, result),
     failed_rucs |-> IF result.status # "success"
                     THEN Put(p.failed_rucs, result.ruc,
                              [error_type |-> result.error_type, attempts |-> result.attempts])
                     ELSE p.failed_rucs]

\* a get_pending_rucs that filters nothing
GetAllRucs(rucs, p) == rucs

\* ProgressManager.get_pending_rucs
GetPendingRucs(rucs, p) == SelectSeq(rucs, LAMBDA r : r \notin p.processed_rucs)

\* ProgressManager.load: a missing or unparsable file leaves the state alone
Load(p, file) == IF file.exists /\ file.complete THEN Parse(file.data) ELSE p

ProgressPath == "progress.json"

TempPathIsProgressPath == ProgressPath

\* ProgressManager.save: temp_path
TempPath == "progress.json.tmp"

\* ScraperConfig.failed_file and stats_file
FailedPath == "failed_rucs.csv"
StatsPath == "statistics.json"

\* a save that records every id of the input as processed
SaveOpenAllProcessed(fs, p) ==
    [fs EXCEPT ![TempPath] =
        [exists |-> TRUE, complete |-> FALSE,
         data |-> Dump([p EXCEPT !.processed_rucs = @ \cup Range(all_rucs)])]]

\* ProgressManager.save, up to the open of the temporary file and the start
\* of the write: the file is truncated and holds part of the new snapshot
SaveOpen(fs, p) ==
    [fs EXCEPT ![TempPath] = [exists |-> TRUE, complete |-> FALSE, data |-> Dump(p)]]

\* ProgressManager.save: the write has completed and the file is closed
SaveWritten(fs) == [fs EXCEPT ![TempPath].complete = TRUE]

\* ProgressManager.save: os.replace(temp_path, self.progress_path)
SaveReplace(fs) ==
    IF TempPath = ProgressPath THEN fs
    ELSE [fs EXCEPT ![ProgressPath] = fs[TempPath], ![TempPath] = NoFile]

(***************************************************************************)
(* ResultsWriter (osiptel_core.py).  st bundles the writer's fields with   *)
(* the files it writes: [writer, main_rows, batch_files]                   *)
(***************************************************************************)
\* ResultsWriter._save_batch
\* a flush that numbers every batch 1
SaveBatchFirst(st) ==
    IF st.writer.batch_results = <<>> THEN st
    ELSE [st EXCEPT !.batch_files = Put(@, 1, st.writer.batch_results),
                    !.writer.batch_number = 1,
                    !.writer.batch_times =
                        Append(@, [batch_number |-> 1,
                                   rucs_count |-> Len(st.writer.batch_results)]),
                    !.writer.total_saved = @ + Len(st.writer.batch_results),
                    !.writer.batch_results = <<>>]

\* ResultsWriter._save_batch up to its timing report: the next number is
\* taken, the batch file is written and its entry added to _batch_times
SaveBatchWrite(st) ==
    LET n == st.writer.batch_number + 1 IN
    [st EXCEPT !.batch_files = Put(@, n, st.writer.batch_results),
               !.writer.batch_number = n,
               !.writer.batch_times =
                   Append(@, [batch_number |-> n,
                              rucs_count |-> Len(st.writer.batch_results)])]

\* ResultsWriter._save_batch after its timing report: "Update totals and
\* reset batch"
SaveBatchDone(st) ==
    [st EXCEPT !.writer.total_saved = @ + Len(st.writer.batch_results),
               !.writer.batch_results = <<>>]

\* ResultsWriter._save_batch
SaveBatch(st) ==
    IF st.writer.batch_results = <<>> THEN st ELSE SaveBatchDone(SaveBatchWrite(st))

BatchFullNever(st) == FALSE

\* ResultsWriter.write_result: "len(self._batch_results) >= batch_save_size"
BatchFull(st) == Len(st.writer.batch_results) >= batch_save_size

\* ResultsWriter.write_result up to its first suspension, the opening of
\* the main file: "self._batch_results.append(result)"
WriteResultBegin(st, result) == [st EXCEPT !.writer.batch_results = Append(@, result.ruc)]

\* ResultsWriter.write_result from the opening of the main file on: the row
\* of the Result added last is appended
AppendRow(st) ==
    [st EXCEPT !.writer.appended = @ + 1,
               !.main_rows = Append(@, st.writer.batch_results[Len(st.writer.batch_results)])]

\* the same, with the flush of a full batch
WriteResultRow(st) ==
    LET a == AppendRow(st) IN IF BatchFull(a) THEN SaveBatch(a) ELSE a

\* ResultsWriter.write_result
WriteResult(st, result) == WriteResultRow(WriteResultBegin(st, result))

\* ResultsWriter.write_result and finalize, "async with self._lock": the
\* consumer holds the writer's lock while its write_result is suspended
WriterLockFree == consumer_pc \notin {"write_row", "flush"}

\* ResultsWriter.finalize
Finalize(st) == [SaveBatch(st) EXCEPT !.writer.finalized = TRUE]

WriterState == [writer |-> writer, main_rows |-> main_rows, batch_files |-> batch_files]

SetWriterState(st) ==
    /\ writer' = st.writer
    /\ main_rows' = st.main_rows
    /\ batch_files' = st.batch_files

(***************************************************************************)
(* Worker (osiptel_worker.py)                                              *)
(***************************************************************************)
Bump(f, k) == [f EXCEPT ![k] = @ + 1]

\* a ProgressManager.save is under way: its temporary file is open or
\* written and not yet renamed.  save awaits aiofiles, so the other
\* coroutines run while it is suspended
Saving ==
    \/ consumer_pc \in {"save_write", "save_replace"}
    \/ orch_pc \in {"final_save_write", "final_save_replace"}

\* a save() that does not take the lock
SaveLockFreeAlways == TRUE

\* ProgressManager.save, "async with self._lock": the lock is held from the
\* build of the data to the return of os.replace
SaveLockFree == ~Saving

\* what one attempt can meet: the browser cannot be created (get_browser
\* raises), scrape_ruc returns a failed result, scrape_ruc succeeds
AttemptOutcomes == {"create_failed", "timeout", "ok"}

\* the workers run() creates: "for i in range(self.config.max_workers)"
Started == { w \in Workers : w < max_workers }

Done(w) == worker[w].pc = "done"

InFlight(w) == worker[w].pc \in {"attempt", "backoff"}

\* a Worker.run that ends without its finally block
WorkerExitKeepsBrowser(w, why) ==
    /\ worker' = [worker EXCEPT ![w].pc = "done", ![w].exit = why]
    /\ bm' = bm

\* Worker.run leaves through its finally block: browser_manager.close()
WorkerExit(w, why) ==
    /\ worker' = [worker EXCEPT ![w].pc = "done", ![w].exit = why, ![w].ruc = None,
                                ![w].attempt = 0, ![w].last_result = NoneResult,
                                ![w].tries = 0, ![w].calls = 0]
    /\ bm' = [bm EXCEPT ![w] = Cleanup(@)]

\* Worker.run: the start delay or the delay between requests is over and
\* "while self._running" is evaluated
WorkerWake(w) ==
    /\ worker[w].pc = "sleep"
    /\ IF worker[w].running
       THEN /\ worker' = [worker EXCEPT ![w].pc = "get", ![w].ruc = None, ![w].attempt = 0,
                                        ![w].last_result = NoneResult,
                                        ![w].tries = 0, ![w].calls = 0]
            /\ UNCHANGED bm
       ELSE WorkerExit(w, "stopped")
    /\ UNCHANGED <<run, prev_end, all_rucs, input_fault, max_workers, orch_pc, shutdown_requested, ruc_queue,
                   result_queue, session_counter, consumer_pc, checkpoint_counter,
                   progress, files, save_prev, writer, main_rows, batch_files,
                   audit, lease, bk>>

\* Worker.run: ruc_queue.get() returns; None is the poison pill.  (A worker
\* never waits on an empty queue: one pill per worker follows the ids.)
WorkerGet(w) ==
    /\ worker[w].pc = "get"
    /\ ruc_queue # <<>>
    /\ ruc_queue' = Tail(ruc_queue)
    /\ IF Head(ruc_queue) = None
       THEN /\ WorkerExit(w, "sentinel")
            /\ audit' = [audit EXCEPT !.sentinels = Bump(@, w)]
            /\ UNCHANGED lease
       ELSE /\ worker' = [worker EXCEPT ![w].pc = "attempt", ![w].ruc = Head(ruc_queue),
                                        ![w].attempt = 1, ![w].last_result = NoneResult,
                                        ![w].tries = 0, ![w].calls = 0]
            /\ audit' = [audit EXCEPT !.dequeued = Bump(@, Head(ruc_queue))]
            /\ lease' = [lease EXCEPT ![w].prev = NoSession, ![w].reused = FALSE]
            /\ UNCHANGED bm
    /\ UNCHANGED <<run, prev_end, all_rucs, input_fault, max_workers, orch_pc, shutdown_requested, result_queue,
                   session_counter, consumer_pc, checkpoint_counter, progress, files,
                   save_prev, writer, main_rows, batch_files, bk>>

ResultCallbackTwice(queue, result) == Append(Append(queue, result), result)

\* ScraperOrchestrator._result_callback: "await self.result_queue.put(result)"
ResultCallback(queue, result) == Append(queue, result)

\* Worker._process_ruc_with_retries: one pass of the for loop, from new_page
\* to the decision to retry, and the return of the result when there is
\* none.  b and counter are the browser manager and the session counter the
\* pass begins with, attempt is its number
AttemptPass(w, b, counter, attempt, out) ==
    LET wk == worker[w]
        np == NewPage(b, w, counter, out # "create_failed", TRUE)
        viaCap == b.browser # NoSession /\ np.b.browser # NoSession
                  /\ np.b.browser # b.browser
        called == np.error = "none"
        res == IF np.error = "create"
               THEN AttemptResult(wk.ruc, "failed", "unknown", attempt)
               ELSE IF out = "ok"
               THEN AttemptResult(wk.ruc, "success", "none", attempt)
               ELSE AttemptResult(wk.ruc, "failed", out, attempt)
        retry == res.status # "success" /\ ShouldRetry(attempt)
    IN /\ out = "create_failed" => NeedsRestart(b, FALSE)
       /\ bm' = [bm EXCEPT ![w] = np.b]
       /\ session_counter' = np.counter
       /\ lease' = [lease EXCEPT
                      ![w] = [LeaseAfter(@, bm[w], np.b, called, viaCap)
                                EXCEPT !.issued = @ \cup Issued(w, session_counter, np.counter),
                                       !.prev = np.b.browser,
                                       !.reused = attempt > 1 /\ np.b.browser # NoSession
                                                  /\ np.b.browser = lease[w].prev]]
       /\ worker' = [worker EXCEPT
                       ![w].pc = IF retry THEN "backoff" ELSE "sleep",
                       ![w].attempt = attempt,
                       ![w].last_result = IF res.status = "success" THEN res
                                          ELSE IF retry THEN res
                                          ELSE AllRetriesFailed(res),
                       ![w].tries = @ + 1,
                       ![w].calls = IF called THEN @ + 1 ELSE @]
       \* Worker.run: "await self.result_callback(result)" follows the return
       \* of the result without a suspension in between
       /\ result_queue' = IF retry THEN result_queue
                          ELSE ResultCallback(result_queue, worker'[w].last_result)
       /\ audit' = [audit EXCEPT
                      !.pushed[wk.ruc] = @ + Len(result_queue') - Len(result_queue),
                      !.passes[wk.ruc] = @ + 1,
                      !.failed[wk.ruc] = IF ~retry /\ res.status # "success" THEN @ + 1 ELSE @,
                      !.kind[wk.ruc] = IF ~retry /\ res.status # "success"
                                       THEN res.error_type ELSE @]

\* the first pass of the loop for the id the worker has dequeued
WorkerAttempt(w) ==
    /\ worker[w].pc = "attempt"
    /\ \E out \in AttemptOutcomes : AttemptPass(w, bm[w], session_counter, 1, out)
    /\ UNCHANGED <<run, prev_end, all_rucs, input_fault, max_workers, orch_pc, shutdown_requested, ruc_queue,
                   consumer_pc, checkpoint_counter, progress, files, save_prev, writer,
                   main_rows, batch_files, bk>>

\* the backoff sleep is over: rotate_ip, then the next pass of the loop
WorkerRetry(w) ==
    /\ worker[w].pc = "backoff"
    /\ \E ok \in BOOLEAN, out \in AttemptOutcomes :
         LET r == RotateIp(bm[w], w, session_counter, ok) IN
         AttemptPass(w, r.b, r.counter, worker[w].attempt + 1, out)
    /\ UNCHANGED <<run, prev_end, all_rucs, input_fault, max_workers, orch_pc, shutdown_requested, ruc_queue,
                   consumer_pc, checkpoint_counter, progress, files, save_prev, writer,
                   main_rows, batch_files, bk>>

(***************************************************************************)
(* Result consumer: ScraperOrchestrator._process_results                   *)
(***************************************************************************)
\* a consumer that never finds a checkpoint due
CheckpointDueNever(counter) == FALSE

\* "if checkpoint_counter >= self.config.checkpoint_interval"
CheckpointDue(counter) == counter >= checkpoint_interval

\* result_queue.get() returns: None ends the loop; a result is recorded,
\* written when successful, and a checkpoint is begun when one is due
\* _process_results: "checkpoint_counter += 1" and the periodic checkpoint
ConsumerCount ==
    /\ checkpoint_counter' = checkpoint_counter + 1
    /\ IF CheckpointDue(checkpoint_counter + 1)
       THEN IF SaveLockFree
            THEN /\ files' = SaveOpen(files, progress')
                 /\ save_prev' = files[ProgressPath]
                 /\ consumer_pc' = "save_write"
            ELSE /\ consumer_pc' = "save_wait"
                 /\ UNCHANGED <<files, save_prev>>
       ELSE /\ consumer_pc' = "get"
            /\ UNCHANGED <<files, save_prev>>

ConsumerTake ==
    /\ consumer_pc = "get"
    /\ result_queue # <<>>
    /\ result_queue' = Tail(result_queue)
    /\ LET result == Head(result_queue) IN
       IF result = NoneResult
       THEN /\ consumer_pc' = "done"
            /\ UNCHANGED <<checkpoint_counter, progress, files, save_prev, writer,
                           main_rows, batch_files, audit>>
       ELSE /\ progress' = AddResult(progress, result)
            /\ audit' = [audit EXCEPT !.recorded = Bump(@, result.ruc)]
            /\ IF result.status = "success"
               THEN /\ SetWriterState(WriteResultBegin(WriterState, result))
                    /\ consumer_pc' = "write_row"
                    /\ UNCHANGED <<checkpoint_counter, files, save_prev>>
               ELSE /\ UNCHANGED <<writer, main_rows, batch_files>>
                    /\ ConsumerCount
    /\ UNCHANGED <<run, prev_end, all_rucs, input_fault, max_workers, orch_pc, shutdown_requested, ruc_queue,
                   worker, bm, session_counter, lease, bk>>

\* _process_results: write_result, resumed after the main file was opened,
\* appends the row; the counter and the checkpoint follow
ConsumerWriteRow ==
    /\ consumer_pc = "write_row"
    /\ progress' = progress
    /\ LET a == AppendRow(WriterState) IN
       IF BatchFull(a)
       THEN /\ SetWriterState(SaveBatchWrite(a))
            /\ consumer_pc' = "flush"
            /\ UNCHANGED <<checkpoint_counter, files, save_prev>>
       ELSE /\ SetWriterState(a)
            /\ ConsumerCount
    /\ UNCHANGED <<run, prev_end, all_rucs, input_fault, max_workers, orch_pc, shutdown_requested, ruc_queue,
                   result_queue, worker, bm, session_counter, audit, lease, bk>>

\* _process_results: _save_batch, resumed after its timing report was
\* written, resets the batch and write_result returns
ConsumerFlushDone ==
    /\ consumer_pc = "flush"
    /\ progress' = progress
    /\ SetWriterState(SaveBatchDone(WriterState))
    /\ ConsumerCount
    /\ UNCHANGED <<run, prev_end, all_rucs, input_fault, max_workers, orch_pc, shutdown_requested, ruc_queue,
                   result_queue, worker, bm, session_counter, audit, lease, bk>>

\* the consumer's save() gets the lock another save() held
ConsumerSaveAcquire ==
    /\ consumer_pc = "save_wait"
    /\ SaveLockFree
    /\ files' = SaveOpen(files, progress)
    /\ save_prev' = files[ProgressPath]
    /\ consumer_pc' = "save_write"
    /\ UNCHANGED <<run, prev_end, all_rucs, input_fault, max_workers, orch_pc, shutdown_requested,
                   ruc_queue, result_queue, worker, bm, session_counter, checkpoint_counter,
                   progress, writer, main_rows, batch_files, audit, lease, bk>>

\* ProgressManager.save called by the consumer: the temporary file is written
ConsumerSaveWrite ==
    /\ consumer_pc = "save_write"
    /\ files' = SaveWritten(files)
    /\ consumer_pc' = "save_replace"
    /\ UNCHANGED <<run, prev_end, all_rucs, input_fault, max_workers, orch_pc, shutdown_requested, ruc_queue,
                   result_queue, worker, bm, session_counter, checkpoint_counter,
                   progress, save_prev, writer, main_rows, batch_files, audit, lease, bk>>

\* ... and replaces the progress file; "checkpoint_counter = 0"
ConsumerSaveReplace ==
    /\ consumer_pc = "save_replace"
    /\ files' = SaveReplace(files)
    /\ checkpoint_counter' = 0
    /\ consumer_pc' = "get"
    /\ UNCHANGED <<run, prev_end, all_rucs, input_fault, max_workers, orch_pc, shutdown_requested, ruc_queue,
                   result_queue, worker, bm, session_counter, progress, save_prev,
                   writer, main_rows, batch_files, audit, lease, bk>>

WorkersAllRunning == \A w \in Started : ~Done(w)

\* the 60 s wait on the empty result queue times out: the loop goes on when
\* shutdown was requested or no worker task is done, and ends otherwise
ConsumerTimeout ==
    /\ consumer_pc = "get"
    /\ result_queue = <<>>
    /\ ~(shutdown_requested \/ WorkersAllRunning)
    /\ consumer_pc' = "done"
    /\ UNCHANGED <<run, prev_end, all_rucs, input_fault, max_workers, orch_pc, shutdown_requested, ruc_queue,
                   result_queue, worker, bm, session_counter, checkpoint_counter,
                   progress, files, save_prev, writer, main_rows, batch_files, audit,
                   lease, bk>>

(***************************************************************************)
(* ScraperOrchestrator.run (osiptel_main.py)                               *)
(***************************************************************************)
PillsShared == <<None>>

\* "for _ in range(self.config.max_workers): await self.ruc_queue.put(None)"
Pills == [i \in 1 .. max_workers |-> None]

\* what run() can find wrong before it starts: the proxy credentials are
\* missing ("no_proxy"), read_rucs_from_file raises ("unreadable")
InputFaults == {"none", "no_proxy", "unreadable"}

\* a run() that takes every configuration as good
ConfigFatalNever(fault, rucs) == FALSE

\* the three early returns of run(): "if not self.config.proxy.is_configured()",
\* "except Exception" around read_rucs_from_file, "if not all_rucs"
ConfigFatal(fault, rucs) == fault # "none" \/ rucs = <<>>

\* run() up to the start of the workers: the ids are read, earlier progress
\* is loaded, the pending ids are queued with one pill per worker, and the
\* consumer and the workers are created
OrchStart ==
    /\ orch_pc = "init"
    /\ LET p == Load(progress, files[ProgressPath])
           pending_rucs == GetPendingRucs(all_rucs, p)
       IN IF ConfigFatal(input_fault, all_rucs)
          THEN /\ orch_pc' = "returned"
               /\ UNCHANGED <<progress, ruc_queue, consumer_pc, worker>>
          ELSE IF pending_rucs = <<>>
          THEN /\ orch_pc' = "returned"
               /\ progress' = p
               /\ UNCHANGED <<ruc_queue, consumer_pc, worker>>
          ELSE /\ orch_pc' = "waiting"
               /\ progress' = [p EXCEPT !.statistics.total_rucs = Len(all_rucs)]
               /\ ruc_queue' = pending_rucs \o Pills
               /\ consumer_pc' = "get"
               /\ worker' = [w \in Workers |->
                               IF w \in Started THEN [InitWorker EXCEPT !.pc = "sleep"]
                               ELSE InitWorker]
    /\ UNCHANGED <<run, prev_end, all_rucs, input_fault, max_workers, shutdown_requested, result_queue, bm,
                   session_counter, checkpoint_counter, files, save_prev, writer,
                   main_rows, batch_files, audit, lease, bk>>

\* signal_handler: SIGINT or SIGTERM while run() waits for the workers
Signal ==
    /\ orch_pc = "waiting"
    /\ ~shutdown_requested
    /\ shutdown_requested' = TRUE
    /\ UNCHANGED <<run, prev_end, all_rucs, input_fault, max_workers, orch_pc, ruc_queue, result_queue, worker,
                   bm, session_counter, consumer_pc, checkpoint_counter, progress,
                   files, save_prev, writer, main_rows, batch_files, audit, lease, bk>>

\* the wait loop ends because every worker task is done; gather returns
OrchWorkersDone ==
    /\ orch_pc = "waiting"
    /\ ~shutdown_requested
    /\ \A w \in Started : Done(w)
    /\ orch_pc' = "finally"
    /\ UNCHANGED <<run, prev_end, all_rucs, input_fault, max_workers, shutdown_requested, ruc_queue, result_queue,
                   worker, bm, session_counter, consumer_pc, checkpoint_counter,
                   progress, files, save_prev, writer, main_rows, batch_files, audit,
                   lease, bk>>

\* the wait loop ends because shutdown was requested: every worker is told
\* to stop and the 3 s grace sleep begins
OrchStopWorkers ==
    /\ orch_pc = "waiting"
    /\ shutdown_requested
    /\ worker' = [w \in Workers |->
                    IF w \in Started THEN [worker[w] EXCEPT !.running = FALSE] ELSE worker[w]]
    /\ orch_pc' = "grace"
    /\ UNCHANGED <<run, prev_end, all_rucs, input_fault, max_workers, shutdown_requested, ruc_queue, result_queue,
                   bm, session_counter, consumer_pc, checkpoint_counter, progress,
                   files, save_prev, writer, main_rows, batch_files, audit, lease, bk>>

\* a task.cancel() that its task never gets
CancelIgnored(wk) == wk

\* task.cancel(): CancelledError is raised at the await the worker is
\* suspended in, and Worker.run leaves through "except CancelledError"
CancelTask(wk) ==
    [InitWorker EXCEPT !.pc = "done", !.exit = "cancelled", !.running = FALSE]

\* after the grace sleep every worker task that is not done is cancelled;
\* each leaves through its finally block, and gather returns
OrchCancelWorkers ==
    /\ orch_pc = "grace"
    /\ worker' = [w \in Workers |->
                    IF Done(w) \/ w \notin Started THEN worker[w]
                    ELSE CancelTask(worker[w])]
    /\ bm' = [w \in Workers |-> Cleanup(bm[w])]
    /\ audit' = [audit EXCEPT !.dropped =
                    [r \in RucIds |->
                        @[r] + Cardinality({w \in Workers : InFlight(w) /\ worker[w].ruc = r})]]
    /\ orch_pc' = "finally"
    /\ UNCHANGED <<run, prev_end, all_rucs, input_fault, max_workers, shutdown_requested, ruc_queue, result_queue,
                   session_counter, consumer_pc, checkpoint_counter, progress, files,
                   save_prev, writer, main_rows, batch_files, lease, bk>>

\* finally: "await self.result_queue.put(None)"
OrchPutSentinel ==
    /\ orch_pc = "finally"
    /\ result_queue' = Append(result_queue, NoneResult)
    /\ orch_pc' = "join"
    /\ UNCHANGED <<run, prev_end, all_rucs, input_fault, max_workers, shutdown_requested, ruc_queue, worker, bm,
                   session_counter, consumer_pc, checkpoint_counter, progress, files,
                   save_prev, writer, main_rows, batch_files, audit, lease, bk>>

\* wait_for(self._result_processor_task, timeout=10): the consumer has ended
OrchConsumerEnded ==
    /\ orch_pc = "join"
    /\ consumer_pc = "done"
    /\ orch_pc' = "finalize"
    /\ UNCHANGED <<run, prev_end, all_rucs, input_fault, max_workers, shutdown_requested, ruc_queue, result_queue,
                   worker, bm, session_counter, consumer_pc, checkpoint_counter,
                   progress, files, save_prev, writer, main_rows, batch_files, audit,
                   lease, bk>>

\* ... or the 10 s are over first and the consumer is cancelled where it is
OrchConsumerCancelled ==
    /\ orch_pc = "join"
    /\ consumer_pc # "done"
    /\ consumer_pc' = "cancelled"
    /\ orch_pc' = "finalize"
    /\ UNCHANGED <<run, prev_end, all_rucs, input_fault, max_workers, shutdown_requested, ruc_queue, result_queue,
                   worker, bm, session_counter, checkpoint_counter, progress, files,
                   save_prev, writer, main_rows, batch_files, audit, lease, bk>>

\* results_writer.finalize(), then the final progress_manager.save() begins
OrchFinalize ==
    /\ orch_pc = "finalize"
    /\ WriterLockFree
    /\ SetWriterState(Finalize(WriterState))
    /\ IF SaveLockFree
       THEN /\ files' = SaveOpen(files, progress)
            /\ save_prev' = files[ProgressPath]
            /\ orch_pc' = "final_save_write"
       ELSE /\ orch_pc' = "final_save_wait"
            /\ UNCHANGED <<files, save_prev>>
    /\ UNCHANGED <<run, prev_end, all_rucs, input_fault, max_workers, shutdown_requested, ruc_queue, result_queue,
                   worker, bm, session_counter, consumer_pc, checkpoint_counter,
                   progress, audit, lease, bk>>

\* the final save() gets the lock the consumer's save() held
OrchFinalSaveAcquire ==
    /\ orch_pc = "final_save_wait"
    /\ SaveLockFree
    /\ files' = SaveOpen(files, progress)
    /\ save_prev' = files[ProgressPath]
    /\ orch_pc' = "final_save_write"
    /\ UNCHANGED <<run, prev_end, all_rucs, input_fault, max_workers, shutdown_requested, ruc_queue,
                   result_queue, worker, bm, session_counter, consumer_pc, checkpoint_counter,
                   progress, writer, main_rows, batch_files, audit, lease, bk>>

OrchFinalSaveWrite ==
    /\ orch_pc = "final_save_write"
    /\ files' = SaveWritten(files)
    /\ orch_pc' = "final_save_replace"
    /\ UNCHANGED <<run, prev_end, all_rucs, input_fault, max_workers, shutdown_requested, ruc_queue, result_queue,
                   worker, bm, session_counter, consumer_pc, checkpoint_counter,
                   progress, save_prev, writer, main_rows, batch_files, audit, lease, bk>>

\* the final save replaces the progress file
OrchFinalSaveReplace ==
    /\ orch_pc = "final_save_replace"
    /\ files' = SaveReplace(files)
    /\ orch_pc' = "export"
    /\ UNCHANGED <<run, prev_end, all_rucs, input_fault, max_workers, shutdown_requested, ruc_queue, result_queue,
                   worker, bm, session_counter, consumer_pc, checkpoint_counter,
                   progress, save_prev, writer, main_rows, batch_files, audit, lease, bk>>

ExportNothing(fs, p) == fs

\* the end of the finally block: write_failed_rucs when there are failed
\* ids, then the statistics file
Export(fs, p) ==
    LET ledger == [exists |-> TRUE, complete |-> TRUE,
                   data |-> Dump([InitProgress EXCEPT !.failed_rucs = p.failed_rucs])]
        stats == [exists |-> TRUE, complete |-> TRUE,
                  data |-> Dump([InitProgress EXCEPT !.statistics = p.statistics])]
    IN [fs EXCEPT ![FailedPath] = IF DOMAIN p.failed_rucs # {} THEN ledger ELSE @,
                  ![StatsPath] = stats]

\* the exports are written and run() returns the statistics
OrchExport ==
    /\ orch_pc = "export"
    /\ files' = Export(files, progress)
    /\ orch_pc' = "returned"
    /\ UNCHANGED <<run, prev_end, all_rucs, input_fault, max_workers, shutdown_requested, ruc_queue, result_queue,
                   worker, bm, session_counter, consumer_pc, checkpoint_counter,
                   progress, save_prev, writer, main_rows, batch_files, audit, lease, bk>>

(***************************************************************************)
(* The process: each start of the program builds its objects anew; the     *)
(* files are what one process leaves to the next                           *)
(***************************************************************************)
Ended == orch_pc \in {"returned", "killed", "killed_in_save"}

\* what a process leaves behind in memory: nothing
ForgetMemory ==
    /\ shutdown_requested' = FALSE
    /\ ruc_queue' = <<>>
    /\ result_queue' = <<>>
    /\ worker' = [w \in Workers |-> InitWorker]
    /\ bm' = [w \in Workers |-> InitBM]
    /\ session_counter' = 0
    /\ consumer_pc' = "idle"
    /\ checkpoint_counter' = 0
    /\ progress' = InitProgress
    /\ writer' = InitWriter
    /\ audit' = InitAudit
    /\ lease' = [w \in Workers |-> InitLease]

\* the process is killed while run() is at work
Kill ==
    /\ orch_pc \notin {"init", "returned", "killed", "killed_in_save"}
    /\ orch_pc' = IF Saving THEN "killed_in_save" ELSE "killed"
    /\ ForgetMemory
    /\ UNCHANGED <<run, prev_end, all_rucs, input_fault, max_workers, files, save_prev, main_rows,
                   batch_files, bk>>

\* how the process that has ended did end
HowEnded ==
    IF orch_pc # "returned" THEN orch_pc
    ELSE IF shutdown_requested THEN "shutdown"
    ELSE IF consumer_pc = "idle" THEN "nothing_to_do"
    ELSE IF consumer_pc = "cancelled" THEN "consumer_cancelled"
    ELSE "completed"

\* the program is started again on the same input and the same output
\* directory
Rerun ==
    /\ Ended
    /\ run < MaxRuns
    /\ run' = run + 1
    /\ prev_end' = HowEnded
    /\ orch_pc' = "init"
    /\ ForgetMemory
    /\ input_fault' \in InputFaults
    /\ UNCHANGED <<all_rucs, max_workers, files, save_prev, main_rows, batch_files, bk>>

(***************************************************************************)
(* The engine                                                              *)
(***************************************************************************)
EngineInitOn(lists) ==
    /\ run = 1
    /\ prev_end = "none"
    /\ all_rucs \in lists
    /\ input_fault \in InputFaults
    /\ max_workers \in 1 .. MaxWorkers
    /\ Len(all_rucs) + max_workers <= MaxLoad
    /\ orch_pc = "init"
    /\ shutdown_requested = FALSE
    /\ ruc_queue = <<>>
    /\ result_queue = <<>>
    /\ worker = [w \in Workers |-> InitWorker]
    /\ bm = [w \in Workers |-> InitBM]
    /\ session_counter = 0
    /\ consumer_pc = "idle"
    /\ checkpoint_counter = 0
    /\ progress = InitProgress
    /\ files = [f \in {ProgressPath, TempPath, FailedPath, StatsPath} |-> NoFile]
    /\ save_prev = NoFile
    /\ writer = InitWriter
    /\ main_rows = <<>>
    /\ batch_files = <<>>
    /\ audit = InitAudit
    /\ lease = [w \in Workers |-> InitLease]

EngineInit == EngineInitOn(InputLists)

Init == EngineInit /\ bk = InitBk

Next ==
    \/ OrchStart
    \/ Signal
    \/ OrchWorkersDone
    \/ OrchStopWorkers
    \/ OrchCancelWorkers
    \/ OrchPutSentinel
    \/ OrchConsumerEnded
    \/ OrchConsumerCancelled
    \/ OrchFinalize
    \/ OrchFinalSaveWrite
    \/ OrchFinalSaveReplace
    \/ OrchExport
    \/ \E w \in Workers : WorkerWake(w)
    \/ \E w \in Workers : WorkerGet(w)
    \/ \E w \in Workers : WorkerAttempt(w)
    \/ \E w \in Workers : WorkerRetry(w)
    \/ ConsumerTake
    \/ ConsumerWriteRow
    \/ ConsumerFlushDone
    \/ ConsumerSaveWrite
    \/ ConsumerSaveReplace
    \/ ConsumerTimeout
    \/ Rerun
    \/ Kill

Spec == Init /\ [][Next]_vars

(***************************************************************************)
(* The components on their own: a ResultsWriter that is handed successful  *)
(* results, a BrowserManager whose pages and rotations are asked for in    *)
(* any order, and the retry delay over a range of configurations           *)
(***************************************************************************)
NoRun ==
    /\ EngineInit
    /\ input_fault = "none"
    /\ all_rucs = <<>>
    /\ max_workers = 1

\* ResultsWriter.write_result with a successful result
WriterAppend ==
    /\ ~writer.finalized
    /\ writer.appended < MaxAppends
    /\ \E ruc \in RucIds :
         SetWriterState(WriteResult(WriterState, Result(ruc, "success", "none", 1)))
    /\ UNCHANGED <<run, prev_end, all_rucs, input_fault, max_workers, orch_pc, shutdown_requested,
                   ruc_queue, result_queue, worker, bm, session_counter, consumer_pc,
                   checkpoint_counter, progress, files, save_prev, audit, lease, bk>>

\* ResultsWriter.finalize
WriterFinalize ==
    /\ ~writer.finalized
    /\ SetWriterState(Finalize(WriterState))
    /\ UNCHANGED <<run, prev_end, all_rucs, input_fault, max_workers, orch_pc, shutdown_requested,
                   ruc_queue, result_queue, worker, bm, session_counter, consumer_pc,
                   checkpoint_counter, progress, files, save_prev, audit, lease, bk>>

WriterInit == NoRun /\ bk = InitBk

WriterNext == WriterAppend \/ WriterFinalize

SpecWriter == WriterInit /\ [][WriterNext]_vars

PageOps == SeqSum([i \in 1 .. MaxWorkers |-> lease[i - 1].ops])

\* BrowserManager.new_page
LeaseNewPage(w) ==
    /\ PageOps < MaxPageOps
    /\ \E create_ok \in BOOLEAN, page_ok \in BOOLEAN :
         LET np == NewPage(bm[w], w, session_counter, create_ok, page_ok)
             viaCap == bm[w].browser # NoSession /\ np.b.browser # NoSession
                       /\ np.b.browser # bm[w].browser
         IN /\ ~create_ok => NeedsRestart(bm[w], FALSE) /\ page_ok
            /\ bm' = [bm EXCEPT ![w] = np.b]
            /\ session_counter' = np.counter
            /\ lease' = [lease EXCEPT
                           ![w] = [LeaseAfter(@, bm[w], np.b, np.error = "none", viaCap)
                                     EXCEPT !.ops = @ + 1,
                                            !.issued = @ \cup Issued(w, session_counter,
                                                                     np.counter)]]
    /\ UNCHANGED <<run, prev_end, all_rucs, input_fault, max_workers, orch_pc, shutdown_requested,
                   ruc_queue, result_queue, worker, consumer_pc, checkpoint_counter,
                   progress, files, save_prev, writer, main_rows, batch_files, audit, bk>>

\* BrowserManager.rotate_ip
LeaseRotate(w) ==
    /\ PageOps < MaxPageOps
    /\ \E ok \in BOOLEAN :
         LET r == RotateIp(bm[w], w, session_counter, ok) IN
         /\ bm' = [bm EXCEPT ![w] = r.b]
         /\ session_counter' = r.counter
         /\ lease' = [lease EXCEPT
                        ![w] = [LeaseAfter(@, bm[w], r.b, FALSE, FALSE)
                                  EXCEPT !.ops = @ + 1,
                                         !.issued = @ \cup Issued(w, session_counter,
                                                                  r.counter)]]
    /\ UNCHANGED <<run, prev_end, all_rucs, input_fault, max_workers, orch_pc, shutdown_requested,
                   ruc_queue, result_queue, worker, consumer_pc, checkpoint_counter,
                   progress, files, save_prev, writer, main_rows, batch_files, audit, bk>>

LeaseNext == \E w \in Workers : LeaseNewPage(w) \/ LeaseRotate(w)

LeaseInit == NoRun /\ bk = InitBk

SpecLease == LeaseInit /\ [][LeaseNext]_vars

BaseDelays == 1 .. (retry_base_delay + 1)
Multipliers == 1 .. (retry_multiplier + 1)
MaxDelays == {retry_max_delay \div 3, retry_max_delay}

BackoffInit ==
    /\ NoRun
    /\ \E base \in BaseDelays, mult \in Multipliers, maxd \in MaxDelays :
         bk = [base |-> base, mult |-> mult, maxd |-> maxd, attempt |-> 0, delays |-> <<>>]

\* the delay computed after the failed attempt bk.attempt + 1
BackoffStep ==
    /\ bk.attempt < MaxBackoffAttempt
    /\ bk' = [bk EXCEPT !.attempt = @ + 1,
                        !.delays = Append(@, BackoffDelay(bk.base, bk.mult, bk.maxd,
                                                          bk.attempt + 1))]
    /\ UNCHANGED engineVars

SpecBackoff == BackoffInit /\ [][BackoffStep]_vars

\* get_pending_rucs on its own: any list of ids (repeated ids included) and
\* any set of processed ids, some of them not in the list
PendingIds == 1 .. (MaxRucs + 1)
IdLists == UNION { [1 .. n -> PendingIds] : n \in 0 .. MaxListLen }

PendingInit ==
    /\ NoRun
    /\ \E rucs \in IdLists, done \in SUBSET PendingIds :
         bk = [all_rucs |-> rucs, processed_rucs |-> done, called |-> FALSE,
               pending_rucs |-> <<>>]

\* pending_rucs = self.progress_manager.get_pending_rucs(all_rucs)
PendingCall ==
    /\ ~bk.called
    /\ bk' = [bk EXCEPT !.called = TRUE, !.pending_rucs = GetPendingRucs(bk.all_rucs, bk)]
    /\ UNCHANGED engineVars

SpecPending == PendingInit /\ [][PendingCall]_vars

(***************************************************************************)
(* One process that is not killed, under the scheduling of the event loop: *)
(* a coroutine that can run does run, a sleep that has elapsed returns     *)
(***************************************************************************)
RunNext ==
    \/ OrchStart
    \/ Signal
    \/ OrchWorkersDone
    \/ OrchStopWorkers
    \/ OrchCancelWorkers
    \/ OrchPutSentinel
    \/ OrchConsumerEnded
    \/ OrchConsumerCancelled
    \/ OrchFinalize
    \/ OrchFinalSaveWrite
    \/ OrchFinalSaveReplace
    \/ OrchExport
    \/ \E w \in Workers : WorkerWake(w)
    \/ \E w \in Workers : WorkerGet(w)
    \/ \E w \in Workers : WorkerAttempt(w)
    \/ \E w \in Workers : WorkerRetry(w)
    \/ ConsumerTake
    \/ ConsumerWriteRow
    \/ ConsumerFlushDone
    \/ ConsumerSaveWrite
    \/ ConsumerSaveReplace
    \/ ConsumerTimeout

\* run() is scheduled: its sleep(1) and its sleep(3) return; the file
\* operations a save awaits complete
Fairness ==
    /\ WF_vars(OrchStopWorkers)
    /\ WF_vars(OrchCancelWorkers)
    /\ WF_vars(ConsumerSaveWrite)
    /\ WF_vars(ConsumerSaveReplace)

SpecLive == Init /\ [][RunNext]_vars /\ Fairness

(***************************************************************************)
(* A worker whose loop is left by an exception: one process in which an    *)
(* exception can escape _process_ruc_with_retries                          *)
(***************************************************************************)
\* a crash that still hands a Failed Result to the consumer
CrashResultPushed(queue, ruc) == Append(queue, Result(ruc, "failed", "unknown", max_retries))

\* the exception passes "await self.result_callback(result)" by
CrashResult(queue, ruc) == queue

\* Worker.run, "except Exception as e": an exception raised while the
\* worker processes the id it dequeued ends the loop; the error is logged,
\* the finally block closes the browser and the task is done
WorkerCrash(w) ==
    /\ InFlight(w)
    /\ WorkerExit(w, "crashed")
    /\ result_queue' = CrashResult(result_queue, worker[w].ruc)
    /\ audit' = [audit EXCEPT
                   !.crashed = Bump(@, worker[w].ruc),
                   !.pushed[worker[w].ruc] = @ + Len(result_queue') - Len(result_queue)]
    /\ UNCHANGED <<run, prev_end, all_rucs, input_fault, max_workers, orch_pc, shutdown_requested,
                   ruc_queue, session_counter, consumer_pc, checkpoint_counter, progress,
                   files, save_prev, writer, main_rows, batch_files, lease, bk>>

CrashNext == RunNext \/ \E w \in Workers : WorkerCrash(w)

SpecCrash == Init /\ [][CrashNext]_vars

(***************************************************************************)
(* run() as a coroutine that its caller may cancel: one process, in which  *)
(* the task running run() can be cancelled while it waits for the workers  *)
(***************************************************************************)
\* "except asyncio.CancelledError" of run(): the wait loop, the grace sleep
\* or gather is left with the worker tasks as they are, and the finally
\* block begins
OrchCancelled ==
    /\ orch_pc \in {"waiting", "grace"}
    /\ orch_pc' = "finally"
    /\ UNCHANGED <<run, prev_end, all_rucs, input_fault, max_workers, shutdown_requested, ruc_queue, result_queue,
                   worker, bm, session_counter, consumer_pc, checkpoint_counter,
                   progress, files, save_prev, writer, main_rows, batch_files, audit,
                   lease, bk>>

CancelNext ==
    \/ OrchStart
    \/ Signal
    \/ OrchWorkersDone
    \/ OrchStopWorkers
    \/ OrchCancelWorkers
    \/ OrchCancelled
    \/ OrchPutSentinel
    \/ OrchConsumerEnded
    \/ OrchConsumerCancelled
    \/ OrchFinalize
    \/ OrchFinalSaveWrite
    \/ OrchFinalSaveReplace
    \/ OrchExport
    \/ \E w \in Workers : WorkerWake(w)
    \/ \E w \in Workers : WorkerGet(w)
    \/ \E w \in Workers : WorkerAttempt(w)
    \/ \E w \in Workers : WorkerRetry(w)
    \/ ConsumerTake
    \/ ConsumerWriteRow
    \/ ConsumerFlushDone
    \/ ConsumerSaveWrite
    \/ ConsumerSaveReplace
    \/ ConsumerTimeout

SpecCancel == Init /\ [][CancelNext]_vars

(***************************************************************************)
(* Properties                                                              *)
(***************************************************************************)
InFlightCount(r) == Cardinality({ w \in Workers : InFlight(w) /\ worker[w].ruc = r })

WorkersEnded ==
    /\ orch_pc \in {"finally", "join", "finalize", "final_save_write",
                    "final_save_replace", "export", "returned"}
    /\ \A w \in Started : Done(w)

ConsumerEndedItself == consumer_pc = "done"

FinalSaveReached ==
    orch_pc \in {"final_save_write", "final_save_replace", "export", "returned"}

\* C2 as stated, for the runs without a shutdown request in which the
\* consumer ended by itself: when the run performs its final save, every
\* Result that was pushed has been consumed and recorded exactly once.
C2_EveryPushedResultRecorded ==
    (FinalSaveReached /\ ConsumerEndedItself /\ ~shutdown_requested)
        => \A r \in RucIds : audit.recorded[r] = audit.pushed[r]

\* C3 as stated: the run that follows a run that went to completion over
\* the same input starts no worker and processes nothing.
C3_SecondRunStartsNoWorker ==
    (run > 1 /\ prev_end = "completed" /\ orch_pc # "init")
        => /\ \A w \in Workers : worker[w].pc = "idle"
           /\ ruc_queue = <<>>
           /\ consumer_pc = "idle"

\* C4: the progress file is never a partial file: at every moment, a kill
\* in the middle of save() included, it is absent or complete; until the
\* replace of save() it is the file that was there when save() began, and
\* after the final save it is the complete snapshot of the progress.
C4_CheckpointAtomic ==
    /\ files[ProgressPath].exists => files[ProgressPath].complete
    /\ (Saving \/ orch_pc = "killed_in_save") => files[ProgressPath] = save_prev
    /\ (orch_pc = "returned" /\ consumer_pc # "idle")
         => files[ProgressPath] = [exists |-> TRUE, complete |-> TRUE, data |-> Dump(progress)]

C4_Witness ==
    /\ orch_pc = "killed_in_save"
    /\ files[TempPath].exists
    /\ ~files[TempPath].complete
    /\ files[ProgressPath].exists
    /\ files[ProgressPath].data # files[TempPath].data

Finalized(w) == worker[w].pc = "sleep" /\ worker[w].last_result # NoneResult

\* C7: a task gets at most max_retries attempts; after the failed attempt
\* numbered max_retries there is no backoff sleep and no rotation, and the
\* task is finalized as failed with attempts = max_retries.
C7_RetryBound ==
    \A w \in Workers :
        /\ worker[w].tries <= max_retries
        /\ worker[w].attempt <= max_retries
        /\ worker[w].pc = "backoff" => worker[w].attempt < max_retries
        /\ (Finalized(w) /\ worker[w].last_result.status = "failed")
             => /\ worker[w].last_result.attempts = max_retries
                /\ worker[w].tries = max_retries
                /\ bm[w].browser = lease[w].prev

C7_Witness ==
    \E w \in Workers :
        /\ Finalized(w)
        /\ worker[w].last_result.status = "failed"
        /\ worker[w].last_result.attempts = max_retries
        /\ worker[w].calls = max_retries

\* C8: an attempt after the first never runs under the session token of
\* the attempt before it.
C8_RotationOnRetry == \A w \in Workers : ~lease[w].reused

C8_Witness ==
    \E w \in Workers :
        /\ worker[w].tries >= 2
        /\ worker[w].calls = worker[w].tries
        /\ bm[w].browser # NoSession
        /\ ~lease[w].reused

\* C9 as stated: the attempts field of a terminal Result equals the number
\* of times the extractor was invoked for the task.
C9_AttemptsAreExtractorCalls ==
    \A w \in Workers : Finalized(w) => worker[w].last_result.attempts = worker[w].calls

\* C9, amended: the attempts field of a terminal Result equals the number of
\* passes of the retry loop made for the task; the extractor is invoked at
\* most once in a pass, and not at all in a pass in which the browser could
\* not be created, so its invocations are at most attempts.
C9_AttemptsArePasses ==
    \A w \in Workers :
        Finalized(w) => /\ worker[w].last_result.attempts = worker[w].tries
                        /\ worker[w].calls <= worker[w].last_result.attempts

C9_Witness ==
    \E w \in Workers :
        /\ Finalized(w)
        /\ worker[w].last_result.attempts = 2
        /\ worker[w].last_result.status = "success"
        /\ worker[w].calls = 1

BatchCount(n) == (n + batch_save_size - 1) \div batch_save_size

LastBatchSize(n) ==
    IF n % batch_save_size = 0 THEN batch_save_size ELSE n % batch_save_size

\* C5: after finalize() of a writer that was handed N successful results and
\* started on a directory without batch files, the batch files are those
\* numbered 1 .. ceil(N/B); each but the last holds B results and the last
\* holds N mod B results, B when N is a multiple of B.
C5_BatchPartitioning ==
    writer.finalized =>
        LET n == writer.appended
            k == BatchCount(n)
        IN /\ DOMAIN batch_files = 1 .. k
           /\ Len(writer.batch_times) = k
           /\ \A i \in 1 .. k :
                /\ writer.batch_times[i].batch_number = i
                /\ writer.batch_times[i].rucs_count = Len(batch_files[i])
                /\ Len(batch_files[i]) = IF i < k THEN batch_save_size ELSE LastBatchSize(n)
           /\ writer.total_saved = n
           /\ writer.batch_results = <<>>

C5_Witness ==
    /\ writer.finalized
    /\ writer.appended > 2 * batch_save_size
    /\ writer.appended % batch_save_size # 0
    /\ Len(batch_files[BatchCount(writer.appended)]) < batch_save_size

\* C6: no session has more pages opened on it than max_pages_per_browser;
\* a page asked for when the current session has reached the cap is opened
\* on a session created for it, on which it is the first page.
C6_LeaseRotationCap ==
    \A w \in Workers :
        /\ lease[w].uses <= max_pages_per_browser
        /\ bm[w].browser # NoSession => bm[w].pages_opened = lease[w].uses
        /\ lease[w].forced => lease[w].uses <= 1

C6_Witness ==
    \E w \in Workers :
        /\ lease[w].forced
        /\ lease[w].uses = 1
        /\ bm[w].pages_opened = 1

NonDecreasing(s) == \A i \in 1 .. (Len(s) - 1) : s[i] <= s[i + 1]

\* C10: for a multiplier and a base delay of at least 1, the delay before
\* jitter, min(base * multiplier^(attempt-1), max delay), is non-decreasing
\* in the attempt number and never exceeds the max delay.
C10_BackoffMonotonic ==
    /\ NonDecreasing(bk.delays)
    /\ \A i \in DOMAIN bk.delays :
         bk.delays[i] <= bk.maxd

C10_Witness ==
    /\ bk.base = retry_base_delay
    /\ bk.mult = retry_multiplier
    /\ bk.maxd = retry_max_delay
    /\ Len(bk.delays) >= 4
    /\ bk.delays[1] < bk.delays[2]
    /\ bk.delays[4] = retry_max_delay

\* the worker pool of the current process has been started
PoolStarted ==
    \/ orch_pc \in {"waiting", "grace", "finally", "join", "finalize",
                    "final_save_write", "final_save_replace", "export"}
    \/ orch_pc = "returned" /\ consumer_pc # "idle"

SentinelsQueued == Cardinality({ i \in DOMAIN ruc_queue : ruc_queue[i] = None })

SentinelsSeen == SeqSum([i \in 1 .. MaxWorkers |-> audit.sentinels[i - 1]])

\* sentinels are behind the ids: no id follows a sentinel in the queue
SentinelsLast ==
    \A i \in DOMAIN ruc_queue, j \in DOMAIN ruc_queue :
        (ruc_queue[i] = None /\ i < j) => ruc_queue[j] = None

SentinelPut ==
    /\ PoolStarted
    /\ orch_pc \in {"join", "finalize", "final_save_write", "final_save_replace",
                    "export", "returned"}

ResultSentinels == Cardinality({ i \in DOMAIN result_queue : result_queue[i] = NoneResult })

\* C12 as stated: at most one sentinel is on the ResultQueue, it is put only
\* after every worker task has terminated, and no Result is enqueued behind
\* it.
C12_ResultSentinelAfterWorkers ==
    /\ ResultSentinels <= 1
    /\ SentinelPut => \A w \in Started : Done(w)
    /\ \A i \in DOMAIN result_queue, j \in DOMAIN result_queue :
         (result_queue[i] = NoneResult /\ i < j) => result_queue[j] = NoneResult

Written(p) == [exists |-> TRUE, complete |-> TRUE, data |-> p]

C14_GracefulShutdown ==
    shutdown_requested ~>
        (/\ SentinelPut \/ orch_pc = "finally"
         /\ \A w \in Started : Done(w) /\ worker[w].exit \in {"sentinel", "stopped", "cancelled"})

C14_Witness ==
    /\ shutdown_requested
    /\ orch_pc = "finally"
    /\ \E w \in Started : worker[w].exit = "stopped"
    /\ \E w \in Started : worker[w].exit = "cancelled"

\* the worker's stop flag is set: Worker.stop() has run
StopFlagSet(w) == ~worker[w].running

\* the worker goes from its backoff sleep into the next pass of the retry loop
StartsRetry(w) == worker[w].pc = "backoff" /\ worker'[w].tries > worker[w].tries

\* the worker's queue get returns an id
ClaimsTask(w) == worker[w].pc = "get" /\ worker'[w].pc = "attempt"

\* C15: once a worker's stop flag is set, the worker starts no further
\* retry attempt for its current task and claims no further task.
C15_StopFlagPolled ==
    [][\A w \in Workers : StopFlagSet(w) => ~StartsRetry(w) /\ ~ClaimsTask(w)]_vars

\* consumed Results recorded in memory and absent from the progress file
Unsaved == progress.statistics.processed - files[ProgressPath].data.statistics.processed

\* C16: the consumer begins a save with the K-th Result consumed since the
\* last one, so that whenever it waits for the next Result at most K - 1
\* consumed Results are in memory only; while the save is under way they
\* are K.
C16_CheckpointCadence ==
    /\ consumer_pc = "get" =>
          checkpoint_counter <= checkpoint_interval - 1 /\ Unsaved = checkpoint_counter
    /\ consumer_pc \in {"save_write", "save_replace"} =>
          checkpoint_counter = checkpoint_interval /\ Unsaved = checkpoint_interval

C16_Witness ==
    /\ consumer_pc = "get"
    /\ orch_pc = "waiting"
    /\ checkpoint_counter = 0
    /\ progress.statistics.processed = checkpoint_interval
    /\ files[ProgressPath] = Written(Dump(progress))

\* the positions of rucs whose id is not in done, and the k-th of them
Kept(rucs, done) == { i \in DOMAIN rucs : rucs[i] \notin done }

KthKept(rucs, done, k) ==
    CHOOSE i \in Kept(rucs, done) : Cardinality({ j \in Kept(rucs, done) : j <= i }) = k

\* C17: get_pending_rucs(all_rucs) is all_rucs without the entries whose id
\* is in processed_rucs: as many entries as all_rucs has positions with an
\* unprocessed id, and its k-th entry is the id at the k-th such position.
C17_PendingExact ==
    bk.called =>
        /\ Len(bk.pending_rucs) = Cardinality(Kept(bk.all_rucs, bk.processed_rucs))
        /\ \A k \in 1 .. Len(bk.pending_rucs) :
             bk.pending_rucs[k] = bk.all_rucs[KthKept(bk.all_rucs, bk.processed_rucs, k)]

C17_Witness ==
    /\ bk.called
    /\ Len(bk.all_rucs) = 3
    /\ Len(bk.pending_rucs) = 2
    /\ bk.pending_rucs[1] > bk.pending_rucs[2]
    /\ Range(bk.all_rucs) \cap bk.processed_rucs # {}

\* the ids whose failure this process loaded from the progress file: in
\* the ledger without a Result recorded for them by this process
FailedBefore == { r \in RucIds : r \in DOMAIN progress.failed_rucs /\ audit.recorded[r] = 0 }

C19_FailureLedger ==
    \A r \in DOMAIN progress.failed_rucs :
        /\ progress.failed_rucs[r].attempts = max_retries
        /\ r \in progress.processed_rucs
        /\ audit.recorded[r] > 0 => audit.passes[r] = max_retries

C19_Witness ==
    \E r \in DOMAIN progress.failed_rucs :
        /\ audit.recorded[r] = 1
        /\ audit.passes[r] = max_retries
        /\ progress.failed_rucs[r].attempts = max_retries

\* a worker task has ended for one of the reasons Worker.run has to end:
\* its sentinel, its stop flag, its cancellation
EndedInOrder(w) == Done(w) => worker[w].exit \in {"sentinel", "stopped", "cancelled"}

\* the retry loop has returned a Failed Result for the id and pushed it
FailedPushed(r) == audit.failed[r] > 0

\* C20: failed attempts end no worker and no run: a worker ends only on
\* its sentinel, stop flag or cancellation, a task on which every pass
\* failed has taken max_retries passes, and in a run that was not stopped
\* and whose consumer ended by itself every Failed Result pushed is in the
\* failure ledger when the final save is made.
C20_FailureNeverFatal ==
    /\ \A w \in Started : EndedInOrder(w)
    /\ \A r \in RucIds : FailedPushed(r) => audit.passes[r] = max_retries
    /\ (FinalSaveReached /\ ConsumerEndedItself /\ ~shutdown_requested)
          => \A r \in RucIds : FailedPushed(r) => r \in DOMAIN progress.failed_rucs

\* C21: a run() that finds the proxy credentials missing, the input file
\* unreadable or no valid id in it returns in its first step: it creates no
\* queue, worker or consumer, produces no Result, and leaves the progress,
\* the progress file, the exports, the main output and the batch files as
\* they were.
C21_ConfigFailureFatal ==
    [][(orch_pc = "init" /\ orch_pc' # "init" /\ (input_fault # "none" \/ all_rucs = <<>>))
          => /\ orch_pc' = "returned"
             /\ consumer_pc' = "idle"
             /\ ruc_queue' = <<>> /\ result_queue' = <<>>
             /\ worker' = [w \in Workers |-> InitWorker]
             /\ audit' = InitAudit
             /\ UNCHANGED <<progress, files, writer, main_rows, batch_files>>]_vars

C21_Witness ==
    /\ orch_pc = "returned"
    /\ input_fault = "no_proxy"
    /\ all_rucs # <<>>
    /\ run > 1
    /\ files[ProgressPath].exists
    /\ progress = InitProgress
    /\ \A w \in Workers : worker[w].pc = "idle"

\* the ids a worker of this process had claimed when it crashed
Crashed == { r \in RucIds : audit.crashed[r] > 0 }

\* the step is a crash of worker w
Crashes(w) == worker[w].exit # "crashed" /\ worker'[w].exit = "crashed"

\* C22: the id a worker had claimed when an exception ended its loop gets
\* no Result, is not queued again and is recorded neither in
\* processed_rucs nor in the failure ledger; the crash of one worker
\* leaves every other worker, the queues and the consumer as they are.
C22_CrashDropsTask ==
    /\ [](\A r \in Crashed :
            /\ audit.pushed[r] = 0 /\ audit.recorded[r] = 0
            /\ r \notin Range(ruc_queue)
            /\ \A i \in DOMAIN result_queue : result_queue[i].ruc # r
            /\ r \notin progress.processed_rucs
            /\ r \notin DOMAIN progress.failed_rucs)
    /\ [][\A w \in Workers : Crashes(w) =>
            /\ \A v \in Workers \ {w} : worker'[v] = worker[v]
            /\ UNCHANGED <<ruc_queue, result_queue, consumer_pc, orch_pc>>]_vars

C22_Witness ==
    /\ Crashed # {}
    /\ \E w \in Started : worker[w].exit = "crashed"
    /\ \E r \in RucIds \ Crashed : audit.recorded[r] > 0 /\ audit.dequeued[r] > 0
    /\ orch_pc = "returned"

\* every token issued in this process, and the tokens of the live browsers
AllIssued == UNION { lease[w].issued : w \in Workers }

\* C23: the tokens get_session_id has issued in one process are pairwise
\* distinct: there are as many different tokens as there were calls, no
\* token was issued to two workers, and each is a token of its worker.
C23_SessionTokensDistinct ==
    /\ Cardinality(AllIssued) = session_counter
    /\ \A w, v \in Workers : w # v => lease[w].issued \cap lease[v].issued = {}
    /\ \A w \in Workers : bm[w].browser # NoSession => bm[w].browser \in lease[w].issued

C23_Witness ==
    /\ \E w \in Workers : Cardinality(lease[w].issued) >= 2
    /\ \E w, v \in Workers : w # v /\ lease[w].issued # {} /\ lease[v].issued # {}

\* the live sessions of all workers
AllLive == UNION { bm[w].live : w \in Workers }

Exits == { worker[w].exit : w \in { v \in Started : Done(v) } }

SaveLoads ==
    UNION { [1 .. n -> { Result(ruc, "success", "none", 1) : ruc \in RucIds }]
              : n \in 0 .. MaxListLen + 1 }

SaveInit ==
    /\ run = 1
    /\ prev_end = "none"
    /\ all_rucs = <<>>
    /\ input_fault = "none"
    /\ max_workers = 1
    /\ orch_pc = "finalize"
    /\ shutdown_requested = FALSE
    /\ ruc_queue = <<>>
    /\ result_queue \in SaveLoads
    /\ worker = [w \in Workers |-> InitWorker]
    /\ bm = [w \in Workers |-> InitBM]
    /\ session_counter = 0
    /\ consumer_pc = "get"
    /\ checkpoint_counter \in 0 .. checkpoint_interval - 1
    /\ progress = InitProgress
    /\ files = [f \in {ProgressPath, TempPath, FailedPath, StatsPath} |-> NoFile]
    /\ save_prev = NoFile
    /\ writer = InitWriter
    /\ main_rows = <<>>
    /\ batch_files = <<>>
    /\ audit = InitAudit
    /\ lease = [w \in Workers |-> InitLease]
    /\ bk = InitBk

SaveNext ==
    \/ ConsumerTake
    \/ ConsumerWriteRow
    \/ ConsumerFlushDone
    \/ ConsumerSaveAcquire
    \/ ConsumerSaveWrite
    \/ ConsumerSaveReplace
    \/ OrchFinalize
    \/ OrchFinalSaveAcquire
    \/ OrchFinalSaveWrite
    \/ OrchFinalSaveReplace

SpecSave == SaveInit /\ [][SaveNext]_vars

ConsumerSaves == consumer_pc \in {"save_write", "save_replace"}

FinalSaves == orch_pc \in {"final_save_write", "final_save_replace"}

\* C26: two save() executions never overlap: while one save is between the
\* opening of its temporary file and the return of its os.replace no other
\* save is, the temporary file is the one this save opened (unfinished
\* before its write, whole after it), and the progress file is the one the
\* save found.
C26_SavesNeverOverlap ==
    /\ ~(ConsumerSaves /\ FinalSaves)
    /\ (consumer_pc = "save_write" \/ orch_pc = "final_save_write")
         => files[TempPath].exists /\ ~files[TempPath].complete
    /\ (consumer_pc = "save_replace" \/ orch_pc = "final_save_replace")
         => files[TempPath].exists /\ files[TempPath].complete
    /\ (ConsumerSaves \/ FinalSaves) => files[ProgressPath] = save_prev

\* the final save waits for the lock while the consumer's checkpoint, which
\* follows an earlier checkpoint, has written its temporary file
C26_Witness ==
    /\ orch_pc = "final_save_wait"
    /\ consumer_pc = "save_replace"
    /\ files[ProgressPath].exists

\* the consumer's checkpoint waits for the lock the final save holds
C26_WitnessConsumerWaits ==
    /\ consumer_pc = "save_wait"
    /\ orch_pc = "final_save_replace"

\* the batch file names this process has used, in the order of their use
BatchNumbersUsed == [i \in DOMAIN writer.batch_times |-> writer.batch_times[i].batch_number]

\* C27: within one process the flushed batches are numbered 1, 2, 3, ...:
\* the k-th flush uses number k, each flush raises the number by one and
\* writes a file no earlier flush of the process has written, and leaves
\* the files of the earlier flushes as they are.
C27_BatchNumbersIncrease ==
    /\ [](/\ Len(BatchNumbersUsed) = writer.batch_number
          /\ \A i \in DOMAIN BatchNumbersUsed : BatchNumbersUsed[i] = i)
    /\ [][batch_files' # batch_files =>
            /\ writer'.batch_number = writer.batch_number + 1
            /\ DOMAIN batch_files' = DOMAIN batch_files \cup {writer'.batch_number}
            /\ writer'.batch_number \notin DOMAIN batch_files
            /\ \A n \in DOMAIN batch_files : batch_files'[n] = batch_files[n]]_vars

\* three batches have been flushed, the third by finalize()
C27_Witness ==
    /\ writer.finalized
    /\ BatchNumbersUsed = <<1, 2, 3>>
    /\ Len(batch_files[3]) < batch_save_size

\* C28: a batch file, once written, is never overwritten or modified, a
\* later run on the same input name and output directory included: every
\* step leaves each batch file that exists as it is.
C28_BatchFilesImmutable ==
    [][\A n \in DOMAIN batch_files :
          n \in DOMAIN batch_files' /\ batch_files'[n] = batch_files[n]]_vars

\* the batch file a process ended by a shutdown has left holds other rows
\* after the resumed run
C28_Overwritten ==
    /\ run > 1
    /\ prev_end = "shutdown"
    /\ 1 \in DOMAIN batch_files
    /\ writer.batch_number = 1
    /\ \E i \in DOMAIN main_rows :
         \A j \in DOMAIN batch_files[1] : batch_files[1][j] # main_rows[i]

\* the ids on which every pass of the retry loop failed
FailedEveryAttempt == { r \in Range(all_rucs) : audit.failed[r] = 1 }

\* the ids whose first pass succeeded
FirstAttemptSuccess ==
    { r \in Range(all_rucs) :
        audit.passes[r] = 1 /\ audit.pushed[r] = 1 /\ audit.failed[r] = 0 }

\* the first run over the input has returned without a stop signal, its
\* consumer has ended by itself, and every id failed on every pass or
\* succeeded on its first
RunOfFailuresAndFirstSuccesses ==
    /\ run = 1
    /\ orch_pc = "returned"
    /\ ~shutdown_requested
    /\ ConsumerEndedItself
    /\ Range(all_rucs) = FailedEveryAttempt \cup FirstAttemptSuccess

\* C29: after a run to completion without shutdown in which the ids of F
\* fail on every attempt and the others succeed on their first, the ids
\* outside F have one row each and count as successes without a retry, the
\* ledger's keys are F, each with the error kind of its Failed Result and
\* attempts = max_retries, and processed_rucs holds every id, in memory and
\* in the progress file.
C29_FailuresAndSuccessesRecorded ==
    RunOfFailuresAndFirstSuccesses =>
        LET F == FailedEveryAttempt IN
        /\ progress.processed_rucs = Range(all_rucs)
        /\ DOMAIN progress.failed_rucs = F
        /\ \A r \in F : progress.failed_rucs[r] =
                            [error_type |-> audit.kind[r], attempts |-> max_retries]
        /\ progress.statistics.successful = Cardinality(FirstAttemptSuccess)
        /\ progress.statistics.failed = Cardinality(F)
        /\ progress.statistics.total_retries = Cardinality(F) * (max_retries - 1)
        /\ \A r \in FirstAttemptSuccess :
             Cardinality({ i \in DOMAIN main_rows : main_rows[i] = r }) = 1
        /\ files[ProgressPath].data = Dump(progress)

\* a run of the kind C29 is about in which every Result was recorded
C29_AllRecorded ==
    /\ RunOfFailuresAndFirstSuccesses
    /\ Len(all_rucs) = MaxRucs
    /\ FailedEveryAttempt # {} /\ FirstAttemptSuccess # {}
    /\ progress.processed_rucs = Range(all_rucs)
    /\ DOMAIN progress.failed_rucs = FailedEveryAttempt

\* the records of C29 hold in the runs whose consumer took every Result
\* that was pushed
C29_RecordedWhenConsumed ==
    (\A r \in RucIds : audit.recorded[r] = audit.pushed[r])
        => C29_FailuresAndSuccessesRecorded

RowsOf(r) == { i \in DOMAIN main_rows : main_rows[i] = r }

\* C30: across the runs that share a progress file, a run killed between
\* checkpoints and resumed included, no id has more than one row in the
\* main output file.
C30_OneRowPerId == \A r \in RucIds : Cardinality(RowsOf(r)) <= 1

\* the run resumed after a kill between two checkpoints has appended a
\* second row for an id whose row the killed run had appended
C30_RowTwice ==
    /\ run > 1
    /\ prev_end = "killed"
    /\ \E r \in RucIds : Cardinality(RowsOf(r)) = 2 /\ audit.recorded[r] = 1

\* without a kill no id gets a second row
C30_OneRowWithoutKill ==
    (run = 1 \/ prev_end \notin {"killed", "killed_in_save"}) => C30_OneRowPerId

\* a pass of the retry loop of w in which a session id was drawn and no
\* browser came of it
CreationFails(w) ==
    /\ worker'[w].tries = worker[w].tries + 1
    /\ session_counter' = session_counter + 1
    /\ bm'[w].browser = NoSession

SameProcess == run' = run /\ orch_pc' \notin {"killed", "killed_in_save"}

\* C32: during a run the counters processed, successful, failed and
\* total_retries never decrease, whatever Results are recorded and whatever
\* the progress file held when the run loaded it.
C32_CountersMonotonic ==
    [][SameProcess =>
          /\ progress'.statistics.processed >= progress.statistics.processed
          /\ progress'.statistics.successful >= progress.statistics.successful
          /\ progress'.statistics.failed >= progress.statistics.failed
          /\ progress'.statistics.total_retries >= progress.statistics.total_retries]_vars

\* a second run has loaded the counters of the first and has added a
\* Result to them; a retry, a failure and a success are counted
C32_Witness ==
    /\ run > 1
    /\ files[ProgressPath].exists
    /\ progress.statistics.processed > files[ProgressPath].data.statistics.processed
    /\ files[ProgressPath].data.statistics.processed > 0
    /\ progress.statistics.successful > 0
    /\ progress.statistics.failed > 0
    /\ progress.statistics.total_retries > 0

\* the ids a snapshot records as processed with success
SuccessfulIn(data) == Range(data.processed_rucs) \ DOMAIN data.failed_rucs

\* the snapshots on disk: the progress file and the temporary file of a
\* save
Snapshots == { f \in {ProgressPath, TempPath} : files[f].exists }

\* C33: the row of a successful Result is appended to the main output file
\* before a snapshot with its id is written: every id a snapshot on disk
\* records as processed with success has a row in the main output file.
C33_RowBeforeSnapshot ==
    \A f \in Snapshots : \A r \in SuccessfulIn(files[f].data) : RowsOf(r) # {}

\* the same for the snapshots of a process whose consumer was not cancelled
C33_RowBeforeSnapshotUncancelled == consumer_pc # "cancelled" => C33_RowBeforeSnapshot

\* the final save of a run whose consumer was cancelled inside write_result
\* has written a snapshot with an id that has no row
C33_NoRow ==
    /\ orch_pc = "returned"
    /\ consumer_pc = "cancelled"
    /\ \E r \in SuccessfulIn(files[ProgressPath].data) : RowsOf(r) = {}

\* C34: in memory and in every snapshot on disk, processed equals
\* successful + failed.
C34_ProcessedIsSum ==
    /\ progress.statistics.processed
         = progress.statistics.successful + progress.statistics.failed
    /\ \A f \in Snapshots :
         files[f].data.statistics.processed
           = files[f].data.statistics.successful + files[f].data.statistics.failed

\* a second process has loaded a snapshot with a success and a failure
\* counted; a save is under way, so the temporary file is on disk as well
C34_Witness ==
    /\ run > 1
    /\ Snapshots = {ProgressPath, TempPath}
    /\ files[ProgressPath].data.statistics.successful > 0
    /\ files[ProgressPath].data.statistics.failed > 0
    /\ progress.statistics.processed = MaxRucs

\* the number of rows the batch files this process wrote hold for id r
BatchRowsOf(r) ==
    SeqSum([n \in 1 .. writer.batch_number |->
              Cardinality({ i \in DOMAIN batch_files[n] : batch_files[n][i] = r })])

\* the ids whose Result the consumer of this process has handled
Handled == { r \in RucIds : audit.recorded[r] > 0 }

\* C35: once the final block of run() has finalized the writer, every id
\* whose successful Result the consumer handled is in exactly one of the
\* batch files the process wrote, once, and no id whose Failed Result it
\* handled is in any of them.
C35_SuccessInOneBatch ==
    writer.finalized =>
        /\ \A n \in 1 .. writer.batch_number : n \in DOMAIN batch_files
        /\ \A r \in Handled :
             BatchRowsOf(r) = IF r \in DOMAIN progress.failed_rucs THEN 0 ELSE 1

\* the same for a process whose consumer was not cancelled
C35_SuccessInOneBatchUncancelled == consumer_pc # "cancelled" => C35_SuccessInOneBatch

\* no batch file of the process holds an id whose Result was Failed, and
\* none of the ids handled with success is missing from the batch files
C35_NoFailedNoneMissing ==
    writer.finalized =>
        \A r \in Handled :
            IF r \in DOMAIN progress.failed_rucs THEN BatchRowsOf(r) = 0
            ELSE BatchRowsOf(r) >= 1

\* the consumer was cancelled inside _save_batch: finalize() has written
\* the same batch again under the next number
C35_InTwoBatches ==
    /\ writer.finalized
    /\ consumer_pc = "cancelled"
    /\ writer.batch_number = 2
    /\ batch_files[1] = batch_files[2]

\* a success and a failure were handled; the batch file holds the success
C35_Witness ==
    /\ writer.finalized
    /\ Handled = RucIds
    /\ \E r \in Handled : r \in DOMAIN progress.failed_rucs
    /\ \E r \in Handled : r \notin DOMAIN progress.failed_rucs /\ BatchRowsOf(r) = 1

(***************************************************************************)
(* One process on an input file that holds an id twice                     *)
(***************************************************************************)
\* read_rucs_from_file keeps every row with eleven digits, repeated ids
\* included
DupLists == { <<r, r>> : r \in RucIds }

DupInit == EngineInitOn(DupLists) /\ bk = InitBk

SpecDup == DupInit /\ [][RunNext]_vars

\* C36: within one run at most one Result is produced for an id, also when
\* the input list holds the id more than once: no id is dequeued twice, is
\* under extraction by two workers, or has two Results pushed.
C36_OneResultPerId ==
    \A r \in RucIds :
        /\ audit.dequeued[r] <= 1
        /\ audit.pushed[r] <= 1
        /\ Cardinality({ i \in DOMAIN ruc_queue : ruc_queue[i] = r }) <= 1

\* the run has returned with two Results recorded and two rows written for
\* the id the input held twice
C36_TwoResults ==
    /\ orch_pc = "returned"
    /\ \E r \in RucIds :
         /\ audit.pushed[r] = 2 /\ audit.recorded[r] = 2
         /\ Cardinality(RowsOf(r)) = 2
         /\ progress.statistics.processed = 2

(***************************************************************************)
(* Worker._process_ruc_with_retries and the push of its Result in          *)
(* Worker.run, for each configured max_retries                             *)
(***************************************************************************)
MaxRetriesTried == 3

RetryInit ==
    /\ NoRun
    /\ \E m \in 0 .. MaxRetriesTried, ruc \in RucIds :
         bk = [max_retries |-> m, ruc |-> ruc, attempt |-> 0, last_result |-> NoneResult,
               outs |-> <<>>, pc |-> "loop", pushed |-> <<>>]

\* one pass of "for attempt in range(1, self.config.max_retries + 1)": a
\* success is returned and pushed at once, a failure is kept as last_result
RetryPass ==
    /\ bk.pc = "loop"
    /\ bk.attempt < bk.max_retries
    /\ \E out \in AttemptOutcomes :
         LET attempt == bk.attempt + 1
             res == IF out = "ok" THEN AttemptResult(bk.ruc, "success", "none", attempt)
                    ELSE IF out = "create_failed"
                    THEN AttemptResult(bk.ruc, "failed", "unknown", attempt)
                    ELSE AttemptResult(bk.ruc, "failed", out, attempt)
         IN bk' = [bk EXCEPT !.attempt = attempt,
                             !.outs = Append(@, out),
                             !.last_result = res,
                             !.pc = IF out = "ok" THEN "returned" ELSE "loop",
                             !.pushed = IF out = "ok" THEN Append(@, res) ELSE @]
    /\ UNCHANGED engineVars

\* the range is exhausted: "last_result.attempts = self.config.max_retries"
\* raises AttributeError when no pass has set last_result, and the
\* exception ends Worker.run without a push
RetryExhausted ==
    /\ bk.pc = "loop"
    /\ bk.attempt >= bk.max_retries
    /\ IF bk.last_result = NoneResult
       THEN bk' = [bk EXCEPT !.pc = "raised"]
       ELSE LET res == [bk.last_result EXCEPT !.attempts = bk.max_retries]
            IN bk' = [bk EXCEPT !.last_result = res, !.pc = "returned",
                                !.pushed = Append(@, res)]
    /\ UNCHANGED engineVars

RetryNext == RetryPass \/ RetryExhausted

SpecRetry == RetryInit /\ [][RetryNext]_vars

\* C37: for every max_retries >= 0 the processing of a dequeued task makes
\* at least one extraction attempt and ends with one Result of the task
\* pushed.
C37_AtLeastOneAttempt ==
    bk.pc # "loop" =>
        /\ Len(bk.outs) >= 1
        /\ bk.pc = "returned"
        /\ bk.pushed = <<bk.last_result>>
        /\ bk.last_result.ruc = bk.ruc

\* the same for max_retries >= 1, with the attempts the Result carries
C37_AtLeastOneAttemptPositive ==
    bk.max_retries >= 1 =>
        /\ C37_AtLeastOneAttempt
        /\ bk.pc = "returned" =>
             IF bk.last_result.status = "success"
             THEN bk.last_result.attempts = Len(bk.outs)
             ELSE Len(bk.outs) = bk.max_retries /\ bk.last_result.attempts = bk.max_retries

\* max_retries = 0: the loop body never ran and the task ended in the
\* exception, without a Result
C37_NoAttempt ==
    /\ bk.max_retries = 0
    /\ bk.pc = "raised"
    /\ bk.outs = <<>>
    /\ bk.pushed = <<>>

(***************************************************************************)
(* ProgressManager.load on the progress files it can meet                  *)
(***************************************************************************)
\* what is at the progress path: nothing; a file that cannot be opened or
\* read; text that is not JSON; JSON that is not an object; an object
\* whose processed_rucs is no list, whose statistics is no object, or
\* whose start_time is no ISO time; a file as save() writes it
LoadKinds ==
    {"absent", "unreadable", "not_json", "not_object", "bad_processed",
     "bad_statistics", "bad_start_time", "saved"}

\* the progress a process had recorded when the file was written
LoadData ==
    LET results == { Result(r, "success", "none", 1) : r \in RucIds }
                     \cup { Result(r, "failed", "timeout", max_retries) : r \in RucIds }
        one == { AddResult(InitProgress, x) : x \in results }
    IN { Dump(q) : q \in one \cup { AddResult(q, x) : q \in one, x \in results } }

\* ProgressManager.load: the assignments made before the statement that
\* raises, and the value returned
LoadFrom(p, kind, data) ==
    IF kind \in {"absent", "unreadable", "not_json", "not_object", "bad_processed"}
    THEN [p |-> p, ok |-> FALSE]
    ELSE IF kind = "bad_statistics"
    THEN [p |-> [p EXCEPT !.processed_rucs = Range(data.processed_rucs),
                          !.failed_rucs = data.failed_rucs],
          ok |-> FALSE]
    ELSE IF kind = "bad_start_time"
    THEN [p |-> Parse(data), ok |-> FALSE]
    ELSE [p |-> Parse(data), ok |-> TRUE]

LoadInit ==
    /\ NoRun
    /\ \E kind \in LoadKinds, data \in LoadData :
         bk = [kind |-> kind, data |-> data, before |-> InitProgress, p |-> InitProgress,
               called |-> FALSE, ok |-> FALSE]

\* run(): "if resume and await self.progress_manager.load()"
LoadCall ==
    /\ ~bk.called
    /\ LET r == LoadFrom(bk.p, bk.kind, bk.data)
       IN bk' = [bk EXCEPT !.called = TRUE, !.p = r.p, !.ok = r.ok]
    /\ UNCHANGED engineVars

SpecLoad == LoadInit /\ [][LoadCall]_vars

\* C38: when load() has returned false the progress in memory is what it
\* was before the call.
C38_FailedLoadChangesNothing == (bk.called /\ ~bk.ok) => bk.p = bk.before

\* the same for a missing file, an unreadable file, text that is not JSON,
\* JSON that is not an object and a processed_rucs that is no list; and a
\* load that returns true has restored the whole snapshot
C38_EarlyFailureChangesNothing ==
    bk.called =>
        /\ bk.kind \in {"absent", "unreadable", "not_json", "not_object", "bad_processed"}
             => ~bk.ok /\ bk.p = bk.before
        /\ bk.ok => bk.p = Parse(bk.data)

\* load() has returned false with processed_rucs and the ledger restored
\* and the statistics not
C38_PartlyRestored ==
    /\ bk.called /\ ~bk.ok
    /\ bk.kind = "bad_statistics"
    /\ bk.p.processed_rucs # {} /\ bk.p.failed_rucs # <<>>
    /\ bk.p.statistics = InitStatistics

\* the ids a run that was shut down leaves undone: those still on the
\* task queue and those whose worker was cancelled before it finished them
LeftUndone == { r \in RucIds : r \in Range(ruc_queue) \/ audit.dropped[r] > 0 }

\* C39: when a run that was shut down has returned, an id left on the task
\* queue or dropped by a cancelled worker is neither in processed_rucs nor
\* in the ledger of the snapshot on disk, and the pending list the next
\* run computes from that snapshot holds it.
C39_NoTaskLost ==
    (orch_pc = "returned" /\ shutdown_requested /\ PoolStarted) =>
        LET file == files[ProgressPath] IN
        /\ file.exists /\ file.complete
        /\ \A r \in LeftUndone :
             /\ r \notin Range(file.data.processed_rucs)
             /\ r \notin DOMAIN file.data.failed_rucs
             /\ r \in Range(GetPendingRucs(all_rucs, Load(InitProgress, file)))

\* a run shut down with one id under extraction and one on the queue
C39_Witness ==
    /\ orch_pc = "returned" /\ shutdown_requested /\ PoolStarted
    /\ \E r \in RucIds : r \in Range(ruc_queue)
    /\ \E r \in RucIds : audit.dropped[r] > 0
    /\ Cardinality(LeftUndone) = 2

(***************************************************************************)
(* One process in which every coroutine is scheduled and every awaited     *)
(* call returns                                                            *)
(***************************************************************************)
\* besides Fairness: the sleep(1) of the wait loop, gather and the put of
\* the result sentinel return; a worker's queue.get with an item on the
\* queue, its extraction call, its backoff sleep and its delay between
\* requests return; the join of the consumer returns, with the consumer's
\* end or after its 10 s
NormalFairness ==
    /\ Fairness
    /\ WF_vars(OrchWorkersDone)
    /\ WF_vars(OrchPutSentinel)
    /\ WF_vars(OrchConsumerEnded)
    /\ WF_vars(OrchConsumerCancelled)
    /\ \A w \in Workers :
         /\ WF_vars(WorkerWake(w))
         /\ WF_vars(WorkerGet(w))
         /\ WF_vars(WorkerAttempt(w))
         /\ WF_vars(WorkerRetry(w))

SpecNormal == Init /\ [][RunNext]_vars /\ NormalFairness

\* every worker has ended on its sentinel, the task queue is empty, the
\* consumer has stopped and run() is in its final block, past the join of
\* the consumer
NormalEnd ==
    /\ \A w \in Started : Done(w) /\ worker[w].exit = "sentinel"
    /\ ruc_queue = <<>>
    /\ consumer_pc \in {"done", "cancelled"}
    /\ orch_pc \in {"finalize", "final_save_write", "final_save_replace", "export",
                     "returned"}

\* C40: a run whose pool has started and that gets no stop signal comes to
\* the point where every worker has exited on its sentinel, the task queue
\* is empty (all ids and all sentinels consumed), the consumer has stopped
\* and run() is in its final block.
C40_NormalTermination == PoolStarted ~> (shutdown_requested \/ NormalEnd)

C40_Witness ==
    /\ NormalEnd
    /\ ~shutdown_requested
    /\ max_workers = MaxWorkers
    /\ consumer_pc = "done"
    /\ \E r \in RucIds : audit.recorded[r] = 1 /\ audit.passes[r] = max_retries

\* C40 in the form of a finite run: when run() has returned from a run whose
\* pool had started and that got no stop signal, every worker has exited on
\* its sentinel, the task queue is empty and the consumer has stopped.
C40_ReturnedWithEmptyQueue ==
    (orch_pc = "returned" /\ PoolStarted /\ ~shutdown_requested) => NormalEnd

\* the same without a worker that left its loop by an exception
C40_ReturnedWithEmptyQueueUncrashed ==
    (\A w \in Workers : worker[w].exit # "crashed") => C40_ReturnedWithEmptyQueue

\* run() has returned, no stop signal was given, a worker left its loop on
\* the id it had just dequeued, before any attempt, and its sentinel is
\* still on the task queue
C40_SentinelLeft ==
    /\ orch_pc = "returned"
    /\ ~shutdown_requested
    /\ \E w \in Started : worker[w].exit = "crashed" /\ worker[w].tries = 0
    /\ ruc_queue # <<>>

====
